---------------------------- MODULE Spec2Model ----------------------------
(***************************************************************************)
(* A model of apb.py: the APB controller class (state, on, off, toggle     *)
(* over a tinytuya OutletDevice) and the command-line driver that resolves *)
(* the device id and key and runs one command.                             *)
(*                                                                         *)
(* Python values: an int is an Integer, True/False used as numbers are 1/0 *)
(* (bool is a subclass of int), the argument of set_status is a BOOLEAN, a *)
(* dict is a function on its keys, a list is a sequence (element i of the  *)
(* list is element i+1 of the sequence), None is the string "None".        *)
(***************************************************************************)
EXTENDS Integers, Sequences, FiniteSets, TLC

\* Number of earlier calls on the controller whose outcomes are remembered.
HistLen == 1

None == "None"

(***************************************************************************)
(* The transport (tinytuya): the records status() and set_status() give.   *)
(***************************************************************************)

\* The records tinytuya gives for a failed exchange (its error_json).
ErrorRecords ==
    { [Error |-> "Network Error: Device Unreachable", Err |-> "905", Payload |-> None],
      [Error |-> "Unexpected Payload from Device", Err |-> "904", Payload |-> None] }

\* A record holding the outlet's data point '1'.
DpsRecord(b) == [dps |-> ("1" :> b)]

VARIABLES
    device,      \* the outlet's switch (data point '1' of the physical device)
    healthy,     \* the transport answers every call without an error record
    contention,  \* an external actor may switch the outlet
    call,        \* the APB method the caller is in: "none", "state", "state=", "on", "off", "toggle"
    apc,         \* position in it: "idle", "get" (at status()), "set" (at set_status()), "done"
    meth,        \* the method holding the pending set_status call: "on" or "off"
    status,      \* local `status` of the state getter
    r,           \* local `r` of on() / off()
    s,           \* local `s` of toggle()
    value,       \* parameter `value` of the state setter
    ret,         \* outcome of the call: a return or a raised APBException
    calls,       \* transport calls issued by the current APB call, in order
    pre,         \* the outlet's switch when the current APB call began
    devBefore,   \* the outlet's switch right before the last set_status
    hist,        \* the last HistLen APB calls before the current one, with their outcomes
    args,        \* the parsed command line
    configFile,  \* what is at the configuration path
    dns,         \* the platform's name resolution
    mpc,         \* position of the command-line driver
    id,          \* local `id` of the driver
    key,         \* local `key` of the driver
    devices,     \* local `devices` of the driver
    apb,         \* the controller the driver constructed
    stdout,      \* lines written to standard output
    stderr,      \* lines written to standard error
    exitcode     \* the process's exit status, -1 while it runs

apbVars == <<device, healthy, contention, call, apc, meth, status, r, s, value,
             ret, calls, pre, devBefore, hist>>
cliVars == <<args, configFile, dns, mpc, id, key, devices, apb, stdout, stderr,
             exitcode>>
vars == <<apbVars, cliVars>>

(***************************************************************************)
(* class APB                                                               *)
(***************************************************************************)

Return(v) == [kind |-> "return", value |-> v]
ReturnNone == [kind |-> "return"]
Raise(e) == [kind |-> "raise", exc |-> e]
Pending == [kind |-> "pending"]
Unset == [unset |-> TRUE]

\* APBException(f"{status['Err']}: {status['Error']}")
APBException(rec) == [type |-> "APBException", msg |-> rec.Err \o ": " \o rec.Error]

\* Python's `not x` for a number
Not(x) == IF x = 0 THEN 1 ELSE 0

\* Mutant of state_get: an error record is read as state 0 instead of raising.
state_get_no_raise(st) ==
    IF "Error" \in DOMAIN st THEN Return(0)
    ELSE IF st.dps["1"] THEN Return(1) ELSE Return(0)

\* The state getter, from the record status() gave.
state_get(st) ==
    IF "Error" \in DOMAIN st
    THEN Raise(APBException(st))
    ELSE IF st.dps["1"] THEN Return(1) ELSE Return(0)

\* Mutant of state_set: the branches of the setter are swapped.
state_set_swapped(v) == IF v = 0 THEN "on" ELSE "off"

\* The state setter: the method it calls for value v.
state_set(v) == IF v = 0 THEN "off" ELSE "on"

\* Mutant of set_status_arg: off() sends True as on() does.
set_status_arg_true(m) == TRUE

\* The argument on() and off() give set_status.
set_status_arg(m) == IF m = "on" THEN TRUE ELSE FALSE

\* on(): from the record set_status(True) gave.
on(rec) == IF "Error" \in DOMAIN rec THEN Raise(APBException(rec)) ELSE ReturnNone

\* Mutant of off: the record is not looked at.
off_ignores_error(rec) == ReturnNone

\* off(): from the record set_status(False) gave.
off(rec) == IF "Error" \in DOMAIN rec THEN Raise(APBException(rec)) ELSE ReturnNone

\* Mutant of toggle_s: the state read is written back without the `not`.
toggle_s_same(state) == state

\* toggle(): s = not self.state
toggle_s(state) == Not(state)

\* toggle(): return int(s)
toggle_return(sv) == Return(sv)

\* What status() can give.
StatusResults == {DpsRecord(device)} \cup (IF healthy THEN {} ELSE ErrorRecords)

\* What set_status(b) can give.
SetStatusResults(b) == {DpsRecord(b)} \cup (IF healthy THEN {} ELSE ErrorRecords)

\* The sequence q with e appended, cut to its last HistLen elements.
Remember(q, e) ==
    LET a == Append(q, e) IN
    IF Len(a) > HistLen THEN SubSeq(a, Len(a) - HistLen + 1, Len(a)) ELSE a

\* A caller enters method c (with v for a state assignment).
Begin(c, v) ==
    /\ call' = c
    /\ hist' = IF call = "none" THEN hist
               ELSE Remember(hist, [call |-> call, value |-> value, ret |-> ret])
    /\ calls' = <<>>
    /\ pre' = device
    /\ devBefore' = device
    /\ ret' = Pending
    /\ status' = Unset
    /\ r' = Unset
    /\ s' = 0
    /\ value' = v
    /\ apc' = IF c \in {"state", "toggle"} THEN "get" ELSE "set"
    /\ meth' = CASE c = "on" -> "on"
                 [] c = "off" -> "off"
                 [] c = "state=" -> state_set(v)
                 [] OTHER -> "none"
    /\ UNCHANGED <<device, healthy, contention>>

\* The call ends with `result`.
Finish(result) ==
    /\ ret' = result
    /\ apc' = "done"

\* self._device.status() and the code up to the next transport call.
Status ==
    /\ apc = "get"
    /\ \E st \in StatusResults :
         LET g == state_get(st) IN
         /\ status' = st
         /\ calls' = Append(calls, <<"status">>)
         /\ IF g.kind = "raise" \/ call = "state"
            THEN /\ Finish(g)
                 /\ UNCHANGED <<s, value, meth>>
            ELSE /\ s' = toggle_s(g.value)
                 /\ value' = s'
                 /\ meth' = state_set(value')
                 /\ apc' = "set"
                 /\ UNCHANGED ret
    /\ UNCHANGED <<device, healthy, contention, call, r, pre, devBefore, hist>>
    /\ UNCHANGED cliVars

\* self._device.set_status(...) in on() or off() and the code up to the return.
\* The outlet switches when the transport gives a record without an error
\* indicator, and is left as it is when it gives an error record.
SetStatus ==
    /\ apc = "set"
    /\ LET b == set_status_arg(meth) IN
       \E rec \in SetStatusResults(b) :
         LET o == IF meth = "on" THEN on(rec) ELSE off(rec) IN
         /\ r' = rec
         /\ calls' = Append(calls, <<"set_status", b>>)
         /\ devBefore' = device
         /\ device' = IF "Error" \in DOMAIN rec THEN device ELSE b
         /\ IF o.kind = "raise" THEN Finish(o)
            ELSE IF call = "toggle" THEN Finish(toggle_return(s))
            ELSE Finish(ReturnNone)
    /\ UNCHANGED <<healthy, contention, call, meth, status, s, value, pre, hist>>
    /\ UNCHANGED cliVars

\* An external actor (another process, the button on the board) switches the outlet.
Interfere ==
    /\ contention
    /\ device' = ~device
    /\ UNCHANGED <<healthy, contention, call, apc, meth, status, r, s, value, ret,
                   calls, pre, devBefore, hist>>
    /\ UNCHANGED cliVars

(***************************************************************************)
(* The command-line driver (__main__).  A run starts after the arguments   *)
(* are parsed, with a host given and without --version.                    *)
(***************************************************************************)

\* Default path of the device table file.
device_conf_path == "/etc/apb/apb.json"

\* The hosts a user names on the command line.
Hosts == {"apb0", "apb0.home.ss", "192.168.1.10", "slap", "10.0.0.9"}

\* The choices of the positional argument cmd.
Cmds == {"0", "on", "1", "off", "t", "toggle", "s", "state", "status"}

\* Name resolution on the home network: short names and one address resolve.
DnsHome ==
    ("apb0" :> "apb0.home.ss") @@ ("apb0.home.ss" :> "apb0.home.ss") @@
    ("192.168.1.10" :> "apb0.home.ss") @@ ("slap" :> "slap.home.ss") @@
    ("10.0.0.9" :> "10.0.0.9")

\* No name resolution: socket.getfqdn gives the name back unchanged.
DnsNone == [h \in Hosts |-> h]

\* Device tables a configuration file can hold: hostname -> [id, key].
Tables ==
    { <<>>,
      ("apb0.home.ss" :> <<"dev123", "key456">>),
      ("apb0.home.ss" :> <<"dev123", "key456">>) @@ ("10.0.0.9" :> <<"dev789", "key012">>) }

\* What can be at the configuration path.
ConfigFiles ==
    { [kind |-> "missing"], [kind |-> "malformed"] } \cup
    { [kind |-> "json", table |-> tb] : tb \in Tables }

\* The dotted-quad strings among Hosts, with the four bytes inet_aton packs.
IPv4Literals == ("192.168.1.10" :> <<192, 168, 1, 10>>) @@ ("10.0.0.9" :> <<10, 0, 0, 9>>)

\* socket.getfqdn(host)
getfqdn(h) == dns[h]

\* socket.inet_aton(host): the packed address, or OSError for any other string.
inet_aton(h) ==
    IF h \in DOMAIN IPv4Literals
    THEN Return(IPv4Literals[h])
    ELSE Raise([type |-> "OSError", msg |-> "illegal IP address string passed to inet_aton"])

\* The characters of the bytes 32 .. 95, in order.
AsciiLow ==
    << " ", "!", "\"", "#", "$", "%", "&", "'", "(", ")", "*", "+",
       ",", "-", ".", "/", "0", "1", "2", "3", "4", "5", "6", "7",
       "8", "9", ":", ";", "<", "=", ">", "?", "@", "A", "B", "C",
       "D", "E", "F", "G", "H", "I", "J", "K", "L", "M", "N", "O",
       "P", "Q", "R", "S", "T", "U", "V", "W", "X", "Y", "Z", "[",
       "\\", "]", "^", "_" >>

\* The characters of the bytes 97 .. 126, in order (byte 96, the backquote,
\* cannot be written in a string of this language and is left out).
AsciiHigh ==
    << "a", "b", "c", "d", "e", "f", "g", "h", "i", "j", "k", "l",
       "m", "n", "o", "p", "q", "r", "s", "t", "u", "v", "w", "x",
       "y", "z", "{", "|", "}", "~" >>

\* The character of a printable byte other than 96.
ascii_char(c) == IF c < 96 THEN AsciiLow[c - 31] ELSE AsciiHigh[c - 96]

HexDigits == << "0", "1", "2", "3", "4", "5", "6", "7", "8", "9", "a", "b", "c", "d", "e", "f" >>

\* The quote repr() puts around a bytes object: " when it holds ' and no ".
bytes_quote(bs) ==
    IF (\E i \in DOMAIN bs : bs[i] = 39) /\ ~(\E i \in DOMAIN bs : bs[i] = 34)
    THEN "\"" ELSE "'"

\* One byte inside the repr() of a bytes object quoted with q.
byte_repr(c, q) ==
    CASE c = 9 -> "\\t"
      [] c = 10 -> "\\n"
      [] c = 13 -> "\\r"
      [] c = 92 -> "\\\\"
      [] c \in (32 .. 126) \ {92, 96} ->
            IF ascii_char(c) = q THEN "\\" \o q ELSE ascii_char(c)
      [] c \in (0 .. 31) \ {9, 10, 13} \/ c \in 127 .. 255 ->
            "\\x" \o HexDigits[(c \div 16) + 1] \o HexDigits[(c % 16) + 1]

RECURSIVE bytes_body(_, _)
bytes_body(bs, q) ==
    IF bs = <<>> THEN "" ELSE byte_repr(Head(bs), q) \o bytes_body(Tail(bs), q)

\* What print() writes for a bytes object: its repr, b'...'.
bytes_repr(bs) == "b" \o bytes_quote(bs) \o bytes_body(bs, bytes_quote(bs)) \o bytes_quote(bs)

\* list[i] of Python
PyIndex(list, i) == list[i + 1]

\* Mutant of needs_config: the configuration file is always read.
needs_config_always(k, i) == TRUE

\* The condition under which the configuration file is read.
needs_config(k, i) == k = None \/ i = None

\* id = devices[fqdn][0]
lookup_id(devs, fqdn) == PyIndex(devs[fqdn], 0)

\* Mutant of lookup_key: the key is taken from element 0.
lookup_key_elem0(devs, fqdn) == PyIndex(devs[fqdn], 0)

\* key = devices[fqdn][1]
lookup_key(devs, fqdn) == PyIndex(devs[fqdn], 1)

\* The lines exit_nicely(status, error_msg) writes to standard error.
exit_nicely_lines(error_msg) == IF error_msg # "" THEN <<"ERROR: " \o error_msg>> ELSE <<>>

\* exit_nicely(status, error_msg)
exit_nicely(st, error_msg) ==
    /\ stderr' = stderr \o exit_nicely_lines(error_msg)
    /\ exitcode' = st
    /\ mpc' = "end"

\* An exception nothing catches: the interpreter prints the traceback and exits with 1.
Uncaught(exc) ==
    /\ stderr' = stderr \o <<"Traceback (most recent call last):", exc.type \o ": " \o exc.msg>>
    /\ exitcode' = 1
    /\ mpc' = "end"

\* The message of the exit for a host with no entry in the device table.
no_entry_msg(h) ==
    "no entry in device table for host/ip: " \o h \o
    "\nPlease specify --key and --id for this host."

\* APB.__init__(id, hostname, key): the transport handle and its settings.
APB_init(i, h, k) ==
    [id |-> i, hostname |-> h, key |-> k, version |-> "3.3",
     socketRetryLimit |-> 4, socketTimeout |-> 4]

\* The APB method the command runs.
cmd_method(c) ==
    CASE c \in {"0", "off"} -> "off"
      [] c \in {"1", "on"} -> "on"
      [] c \in {"t", "toggle"} -> "toggle"
      [] c \in {"s", "state", "status"} -> "state"

\* Mutant of cmd_output: the state command prints nothing.
cmd_output_silent(c, res) == <<>>

\* What a completed command prints: print(f'{apb.state}') for the state command.
cmd_output(c, res) == IF c = "state" THEN <<ToString(res.value)>> ELSE <<>>

\* Read the json config file when key or id is missing.
LoadConfig ==
    /\ mpc = "load"
    /\ IF needs_config(key, id)
       THEN CASE configFile.kind = "json" ->
                   /\ devices' = configFile.table
                   /\ mpc' = "lookup"
                   /\ UNCHANGED <<stderr, exitcode>>
              [] configFile.kind = "malformed" ->
                   /\ exit_nicely(1, "In config file " \o device_conf_path \o
                                     ": Expecting value: line 1 column 1 (char 0)")
                   /\ UNCHANGED devices
              [] configFile.kind = "missing" ->
                   /\ exit_nicely(2, "[Errno 2] No such file or directory: '" \o
                                     device_conf_path \o "'")
                   /\ UNCHANGED devices
       ELSE /\ mpc' = "lookup"
            /\ UNCHANGED <<devices, stderr, exitcode>>
    /\ UNCHANGED <<args, configFile, dns, id, key, apb, stdout>>
    /\ UNCHANGED apbVars

\* Look up the host's details in the device dictionary.
Lookup ==
    /\ mpc = "lookup"
    /\ LET fqdn == getfqdn(args.host)
           keyError == (id = None \/ key = None) /\ fqdn \notin DOMAIN devices
       IN
       IF ~keyError
       THEN /\ id' = IF id = None THEN lookup_id(devices, fqdn) ELSE id
            /\ key' = IF key = None THEN lookup_key(devices, fqdn) ELSE key
            /\ mpc' = "dispatch"
            /\ UNCHANGED <<stdout, stderr, exitcode>>
       ELSE LET packed == inet_aton(args.host) IN
            IF packed.kind = "raise"
            THEN /\ Uncaught(packed.exc)
                 /\ UNCHANGED <<id, key, stdout>>
            ELSE /\ stdout' = Append(stdout, bytes_repr(packed.value))
                 /\ exit_nicely(2, no_entry_msg(args.host))
                 /\ UNCHANGED <<id, key>>
    /\ UNCHANGED <<args, configFile, dns, devices, apb>>
    /\ UNCHANGED apbVars

\* Construct the controller and enter the method of the command.
Dispatch ==
    /\ mpc = "dispatch"
    /\ apb' = APB_init(id, args.host, key)
    /\ Begin(cmd_method(args.cmd), 0)
    /\ mpc' = "call"
    /\ UNCHANGED <<args, configFile, dns, id, key, devices, stdout, stderr, exitcode>>

\* The method has returned or raised: print the state, exit.
Complete ==
    /\ mpc = "call"
    /\ apc = "done"
    /\ IF ret.kind = "raise"
       THEN /\ exit_nicely(3, ret.exc.msg)
            /\ UNCHANGED stdout
       ELSE /\ stdout' = stdout \o cmd_output(call, ret)
            /\ exit_nicely(0, "")
    /\ UNCHANGED <<args, configFile, dns, id, key, devices, apb>>
    /\ UNCHANGED apbVars

(***************************************************************************)
(* A client of class APB: calls on one controller, one after another.      *)
(***************************************************************************)

CanCall == apc \in {"idle", "done"}

CallState == CanCall /\ Begin("state", 0) /\ UNCHANGED cliVars
CallOn == CanCall /\ Begin("on", 1) /\ UNCHANGED cliVars
CallOff == CanCall /\ Begin("off", 0) /\ UNCHANGED cliVars
CallToggle == CanCall /\ Begin("toggle", 0) /\ UNCHANGED cliVars
CallStateSet == CanCall /\ (\E v \in {0, 1} : Begin("state=", v)) /\ UNCHANGED cliVars

NoArgs == [host |-> None, cmd |-> None, id |-> None, key |-> None]

\* The credentials given with --id and --key, or None.
CliIds == {None, "cli-id"}
CliKeys == {None, "cli-key"}

InitAPBIdle ==
    /\ device \in BOOLEAN
    /\ healthy \in BOOLEAN
    /\ contention \in BOOLEAN
    /\ call = "none"
    /\ apc = "idle"
    /\ meth = "none"
    /\ status = Unset
    /\ r = Unset
    /\ s = 0
    /\ value = 0
    /\ ret = Pending
    /\ calls = <<>>
    /\ pre = device
    /\ devBefore = device
    /\ hist = <<>>

InitAPB ==
    /\ InitAPBIdle
    /\ args = NoArgs
    /\ configFile = [kind |-> "missing"]
    /\ dns = DnsNone
    /\ mpc = "library"
    /\ id = "dev123"
    /\ key = "key456"
    /\ devices = Unset
    /\ apb = APB_init("dev123", "apb0.home.ss", "key456")
    /\ stdout = <<>>
    /\ stderr = <<>>
    /\ exitcode = -1

NextAPB ==
    \/ CallState
    \/ CallOn
    \/ CallOff
    \/ CallToggle
    \/ CallStateSet
    \/ Status
    \/ SetStatus
    \/ Interfere

SpecAPB == InitAPB /\ [][NextAPB]_vars

\* The driver after parse_args(): host, key and id are taken from args.
Init ==
    /\ InitAPBIdle
    /\ args \in [host : Hosts, cmd : Cmds, id : CliIds, key : CliKeys]
    /\ configFile \in ConfigFiles
    /\ dns \in {DnsHome, DnsNone}
    /\ mpc = "load"
    /\ id = args.id
    /\ key = args.key
    /\ devices = Unset
    /\ apb = Unset
    /\ stdout = <<>>
    /\ stderr = <<>>
    /\ exitcode = -1

Next ==
    \/ LoadConfig
    \/ Lookup
    \/ Dispatch
    \/ Status
    \/ SetStatus
    \/ Complete
    \/ Interfere

Spec == Init /\ [][Next]_vars


(***************************************************************************)
(* Properties.  Those of the driver are checked under Spec, those of the   *)
(* controller under SpecAPB.                                               *)
(***************************************************************************)

HasError(rec) == "Error" \in DOMAIN rec
Bit(b) == IF b THEN 1 ELSE 0
LastCall == hist[Len(hist)]
TableNeeded == args.id = None \/ args.key = None
HostInTable == configFile.kind = "json" /\ getfqdn(args.host) \in DOMAIN configFile.table
HostNotInTable == configFile.kind = "json" /\ getfqdn(args.host) \notin DOMAIN configFile.table

\* C1: a run whose host has no entry in the loaded configuration table, with
\* --id or --key missing, ends with exit code 2 after one stderr message naming
\* the host, and issues no transport call.
C1_UnknownHostExits2 ==
    (mpc = "end" /\ TableNeeded /\ HostNotInTable) =>
        /\ exitcode = 2
        /\ stderr = <<"ERROR: no entry in device table for host/ip: " \o args.host \o
                      "\nPlease specify --key and --id for this host.">>
        /\ call = "none"
        /\ calls = <<>>

\* C2: once status() or set_status() has given a record with an error
\* indicator, the controller call has ended by raising APBException whose
\* message is the indicator's code and message; it returned nothing.
C2_ErrorRecordRaises ==
    /\ HasError(status) =>
         /\ apc = "done"
         /\ ret = [kind |-> "raise",
                   exc |-> [type |-> "APBException", msg |-> status.Err \o ": " \o status.Error]]
    /\ HasError(r) =>
         /\ apc = "done"
         /\ ret = [kind |-> "raise",
                   exc |-> [type |-> "APBException", msg |-> r.Err \o ": " \o r.Error]]

\* C2 witness: an off() call that got an error record from set_status and raised.
C2_Witness == call = "off" /\ HasError(r) /\ ret.kind = "raise"

\* C3: a run ends with an exit code in {0,1,2,3}: 1 only for a configuration
\* parse error, 2 only for a missing configuration file or a host with no
\* table entry, 3 only for a device-layer error, 0 only on success.
C3_ExitCodes ==
    mpc = "end" =>
        /\ exitcode \in {0, 1, 2, 3}
        /\ exitcode = 1 => (TableNeeded /\ configFile.kind = "malformed")
        /\ exitcode = 2 => (TableNeeded /\ (configFile.kind = "missing" \/ HostNotInTable))
        /\ exitcode = 3 => (apc = "done" /\ ret.kind = "raise")
        /\ exitcode = 0 => (apc = "done" /\ ret.kind = "return")

\* C4: with --id and --key both given the configuration file is never read,
\* the run never exits with 1 or 2, and the controller is constructed with
\* exactly the given id and key.
C4_ExplicitCredentials ==
    (args.id # None /\ args.key # None) =>
        /\ devices = Unset
        /\ exitcode \notin {1, 2}
        /\ apb # Unset => (apb.id = args.id /\ apb.key = args.key /\ apb.hostname = args.host)

\* C4 witness: both given, no usable configuration file, a host no table
\* could hold, and the run succeeded.
C4_Witness ==
    /\ args.id # None /\ args.key # None
    /\ configFile.kind = "malformed"
    /\ apb # Unset
    /\ exitcode = 0

\* C5: for a host whose canonical name has an entry in the configuration
\* table, the controller's id is the explicit id if given, else element 0 of
\* the entry, and its key is the explicit key if given, else element 1.
C5_ResolvedFromTable ==
    (apb # Unset /\ HostInTable) =>
        LET entry == configFile.table[getfqdn(args.host)] IN
        /\ apb.id = IF args.id # None THEN args.id ELSE entry[1]
        /\ apb.key = IF args.key # None THEN args.key ELSE entry[2]

\* C5 witness: no explicit values, a short host name that resolves to a
\* table entry, and the controller holds that entry's id and key.
C5_Witness ==
    /\ args.id = None /\ args.key = None
    /\ args.host = "apb0"
    /\ apb # Unset
    /\ apb.id = "dev123" /\ apb.key = "key456"

\* C6: with a healthy transport and no external actor, a completed toggle()
\* has returned the complement of the outlet's state when it was called, and
\* a state read that follows it returns the value toggle() returned.
C6_ToggleNoContention ==
    (healthy /\ ~contention) =>
        /\ (call = "toggle" /\ apc = "done") => ret = Return(1 - Bit(pre))
        /\ (Len(hist) > 0 /\ LastCall.call = "toggle" /\ call = "state" /\ apc = "done")
              => (ret.kind = "return" /\ ret = LastCall.ret)

\* C6 witness: toggle() from ON returned 0 and the state read after it returned 0.
C6_Witness ==
    /\ healthy /\ ~contention
    /\ Len(hist) > 0 /\ LastCall.call = "toggle" /\ LastCall.ret = Return(0)
    /\ call = "state" /\ apc = "done" /\ ret = Return(0)

\* The target of a completed on / off / state-assignment call e.
SetTarget(e) ==
    CASE e.call = "on" -> 1
      [] e.call = "off" -> 0
      [] e.call = "state=" -> e.value

IsSetCall(c) == c \in {"on", "off", "state="}

\* C7: with a healthy transport and no external actor, no on / off / state
\* assignment fails, each leaves the outlet at its target, and a state read
\* that follows one returns the target of that call.
C7_SetThenGet ==
    (healthy /\ ~contention) =>
        /\ (IsSetCall(call) /\ apc = "done") =>
              /\ ret = ReturnNone
              /\ Bit(device) = SetTarget([call |-> call, value |-> value])
        /\ (Len(hist) > 0 /\ IsSetCall(LastCall.call)) =>
              /\ LastCall.ret = ReturnNone
              /\ (call = "state" /\ apc = "done") => ret = Return(SetTarget(LastCall))

\* C7 witness: on() after on(), neither failed, the outlet is ON.
C7_Witness ==
    /\ healthy /\ ~contention
    /\ Len(hist) > 0 /\ LastCall.call = "on" /\ LastCall.ret = ReturnNone
    /\ call = "on" /\ apc = "done" /\ ret = ReturnNone
    /\ device

\* C8: a run that exits with 0 has written exactly the state it read, "0" or
\* "1", to stdout on the state command, and nothing on on, off and toggle.
C8_StdoutOnSuccess ==
    exitcode = 0 =>
        IF args.cmd \in {"s", "state", "status"}
        THEN /\ ~HasError(status)
             /\ stdout = <<IF status.dps["1"] THEN "1" ELSE "0">>
        ELSE stdout = <<>>

\* C8 witness: the status command printed 1 and exited with 0.
C8_Witness == exitcode = 0 /\ args.cmd = "status" /\ stdout = <<"1">>

\* C9: the set_status of a toggle() carries the complement of the value its
\* own status query returned, whatever the outlet's state is by then.
C9_ToggleWritesComplementOfRead ==
    (call = "toggle" /\ Len(calls) = 2) =>
        /\ ~HasError(status)
        /\ calls[2] = <<"set_status", ~status.dps["1"]>>

\* C9 witness: an external actor switched the outlet between the read and the
\* write, and the completed toggle left the outlet in the state it was in
\* right before the write.
C9_Witness ==
    /\ call = "toggle" /\ apc = "done" /\ ret.kind = "return"
    /\ status.dps["1"] # devBefore
    /\ r = DpsRecord(device)
    /\ device = devBefore

\* C10: a toggle() issues at most one status query, then at most one
\* set_status.  An error record from the status query ends it by raising with
\* no set_status issued; an error record from set_status ends it by raising.
C10_ToggleNoRetry ==
    call = "toggle" =>
        /\ \/ calls = <<>>
           \/ calls = <<<<"status">>>>
           \/ calls \in {<<<<"status">>, <<"set_status", b>>>> : b \in BOOLEAN}
        /\ HasError(status) =>
              /\ calls = <<<<"status">>>>
              /\ apc = "done" /\ ret.kind = "raise"
              /\ ~contention => device = pre
        /\ HasError(r) => (Len(calls) = 2 /\ apc = "done" /\ ret.kind = "raise")
        /\ apc = "done" => (ret.kind = "raise" <=> (HasError(status) \/ HasError(r)))

\* C10 witness: a toggle() whose set_status gave an error record.
C10_Witness == call = "toggle" /\ HasError(r) /\ apc = "done" /\ Len(calls) = 2

=============================================================================
